---- MODULE Spec2Model ----
(***************************************************************************)
(* Model of SampleHotpotDatasetReader                                      *)
(* (semqa/data/dataset_readers/hotpotqa/sample_reader.py).                 *)
(*                                                                         *)
(* Strings are sequences of lexical pieces: a word, the span delimiter     *)
(* "***", a prefix "QSTR:" / "QENT:" or a blank " ".  Concatenation is \o, *)
(* str.split and str.join work on the pieces.  Python lists are sequences  *)
(* (position p of a list is element p+1), dicts are functions whose DOMAIN *)
(* is the key set, and a lookup of a missing key raises KeyError.          *)
(***************************************************************************)
EXTENDS Integers, Sequences, FiniteSets, TLC

VARIABLES
    pc,                 \* control point of the specification being run
    ques_tokens,        \* tokenized question handed to the span extractors
    q_ent_ners,         \* question mentions (text, start, end, label)
    q_entmens2entidx,   \* grounding of each question mention (-1: ungrounded)
    tok_spans,          \* what get_ques_spans returned
    ent_spans,          \* what get_ques_nemens_ent_spans returned
    mens_args,          \* arguments of the processMens call
    mens_ret,           \* what processMens returned
    data_file,          \* lines of the input file not yet read by _read
    lines_read,         \* lines _read has taken, in order, and how each ended
    emitted,            \* instances yielded by _read so far
    call                \* trace of the last text_to_instance call

vars == <<pc, ques_tokens, q_ent_ners, q_entmens2entidx, tok_spans, ent_spans,
          mens_args, mens_ret, data_file, lines_read, emitted, call>>

-----------------------------------------------------------------------------
(* Module level constants of sample_reader.py *)

QSTR_PREFIX == <<"QSTR:">>
QENT_PREFIX == <<"QENT:">>
SPAN_DELIM == <<"***">>

-----------------------------------------------------------------------------
(* Python built-ins used by the reader *)

Min(S) == CHOOSE x \in S : \A y \in S : x <= y

\* len(range(0, n)) positions of a list of length n
Range0(n) == 0 .. (n - 1)

\* s.startswith(prefix)
StartsWith(s, prefix) ==
    /\ Len(s) >= Len(prefix)
    /\ SubSeq(s, 1, Len(prefix)) = prefix

\* s.split(sep) for a non-empty separator
RECURSIVE Split(_, _)
Split(s, sep) ==
    LET hits == {i \in 1 .. (Len(s) - Len(sep) + 1) :
                    SubSeq(s, i, i + Len(sep) - 1) = sep}
    IN  IF hits = {}
        THEN <<s>>
        ELSE LET i == Min(hits)
             IN  <<SubSeq(s, 1, i - 1)>> \o Split(SubSeq(s, i + Len(sep), Len(s)), sep)

\* sep.join(parts)
RECURSIVE Join(_, _)
Join(parts, sep) ==
    IF Len(parts) = 0 THEN <<>>
    ELSE IF Len(parts) = 1 THEN parts[1]
    ELSE parts[1] \o sep \o Join(Tail(parts), sep)

\* s.strip(): blanks removed at both ends
RECURSIVE Strip(_)
Strip(s) ==
    IF Len(s) = 0 THEN s
    ELSE IF s[1] = " " THEN Strip(Tail(s))
    ELSE IF s[Len(s)] = " " THEN Strip(SubSeq(s, 1, Len(s) - 1))
    ELSE s

\* lst[start:end] for 0 <= start, 0 <= end
Slice(lst, start, end) ==
    LET lo == IF start > Len(lst) THEN Len(lst) ELSE start
        hi == IF end > Len(lst) THEN Len(lst) ELSE end
    IN  SubSeq(lst, lo + 1, hi)

SliceAssignMutant(lst, start, end, vals) == SubSeq(lst, 1, start) \o vals \o SubSeq(lst, start + 1, Len(lst))

\* lst[start:end] = vals for 0 <= start, 0 <= end
SliceAssign(lst, start, end, vals) ==
    LET lo == IF start > Len(lst) THEN Len(lst) ELSE start
        hi0 == IF end > Len(lst) THEN Len(lst) ELSE end
        hi == IF hi0 < lo THEN lo ELSE hi0
    IN  SubSeq(lst, 1, lo) \o vals \o SubSeq(lst, hi + 1, Len(lst))

\* [v] * n
Repeat(v, n) == [i \in 1 .. n |-> v]

\* d[k] = v
DictSet(d, k, v) == [x \in (DOMAIN d) \cup {k} |-> IF x = k THEN v ELSE d[x]]

\* {}
EmptyDict == [x \in {} |-> x]

\* SpanField(span_start, span_end, sequence_field): the sequence field is
\* kept as the name of the text it points into
SpanField(span_start, span_end, sequence_field) ==
    [span_start |-> span_start, span_end |-> span_end, sequence_field |-> sequence_field]

\* the iteration orders list(set(xs)) can have: set order is unspecified
SetOrders(xs) ==
    LET S == {xs[i] : i \in DOMAIN xs}
    IN  {o \in [1 .. Cardinality(S) -> S] : \A i, j \in DOMAIN o : i # j => o[i] # o[j]}

-----------------------------------------------------------------------------
(* get_ques_spans *)

\* lines 190-194: token value -> positions it occurs at, ascending
RECURSIVE BuildQtoken2idxs(_, _, _)
BuildQtoken2idxs(toks, qtokenidx, qtoken2idxs) ==
    IF qtokenidx >= Len(toks) THEN qtoken2idxs
    ELSE LET qtoken == toks[qtokenidx + 1]
             d == IF qtoken \notin DOMAIN qtoken2idxs
                  THEN DictSet(qtoken2idxs, qtoken, <<>>)
                  ELSE qtoken2idxs
         IN  BuildQtoken2idxs(toks, qtokenidx + 1,
                              DictSet(d, qtoken, Append(d[qtoken], qtokenidx)))

\* line 213: the tokens the linking score of a QSTR span is built from
SpanTokens(span) == Split(SubSeq(span, Len(QSTR_PREFIX) + 1, Len(span)), SPAN_DELIM)

\* lines 214-218: linking score of a span; qtoken2idxs[span_token] raises
\* KeyError when a piece of the span is no question token
QstrLinkingScore(span, toks, qtoken2idxs) ==
    LET span_tokens == SpanTokens(span)
    IN  IF \E j \in DOMAIN span_tokens : span_tokens[j] \notin DOMAIN qtoken2idxs
        THEN [raised |-> "KeyError", linking_score |-> <<>>]
        ELSE [raised |-> "",
              linking_score |->
                  [p \in 1 .. Len(toks) |->
                      IF \E j \in DOMAIN span_tokens :
                            \E k \in DOMAIN qtoken2idxs[span_tokens[j]] :
                                qtoken2idxs[span_tokens[j]][k] = p - 1
                      THEN 1 ELSE 0]]

\* line 209: the index a new span gets
NextSpanIdxMutant(ques_spans2idx) == Cardinality(DOMAIN ques_spans2idx) + 1

NextSpanIdx(ques_spans2idx) == Cardinality(DOMAIN ques_spans2idx)

\* the state of the four accumulators, plus the exception that ended the call
NoSpans == [raised |-> "", ques_spans |-> <<>>, ques_spans2idx |-> EmptyDict,
            ques_spans_linking_score |-> <<>>, ques_spans_spanidxs |-> <<>>]

\* lines 203-219: the loop over enumerate(uniq_ques_tokens)
RECURSIVE QuesSpansLoop(_, _, _, _, _)
QuesSpansLoop(toks, uniq_ques_tokens, qtoken2idxs, token_idx, st) ==
    IF st.raised # "" \/ token_idx >= Len(uniq_ques_tokens) THEN st
    ELSE LET token == uniq_ques_tokens[token_idx + 1]
             span == QSTR_PREFIX \o token
         IN  IF span \in DOMAIN st.ques_spans2idx
             THEN QuesSpansLoop(toks, uniq_ques_tokens, qtoken2idxs, token_idx + 1, st)
             ELSE LET ls == QstrLinkingScore(span, toks, qtoken2idxs)
                      st1 == [raised |-> ls.raised,
                              ques_spans |-> Append(st.ques_spans, span),
                              ques_spans2idx |->
                                  DictSet(st.ques_spans2idx, span,
                                          NextSpanIdx(st.ques_spans2idx)),
                              ques_spans_linking_score |->
                                  IF ls.raised # "" THEN st.ques_spans_linking_score
                                  ELSE Append(st.ques_spans_linking_score, ls.linking_score),
                              ques_spans_spanidxs |->
                                  Append(st.ques_spans_spanidxs,
                                         SpanField(token_idx, token_idx, "question"))]
                  IN  QuesSpansLoop(toks, uniq_ques_tokens, qtoken2idxs, token_idx + 1, st1)

\* get_ques_spans(ques_tokens, ques_textfield), uniq_ques_tokens being the
\* order list(set(ques_tokens)) came out in
get_ques_spans(toks, uniq_ques_tokens) ==
    QuesSpansLoop(toks, uniq_ques_tokens, BuildQtoken2idxs(toks, 0, EmptyDict), 0, NoSpans)

-----------------------------------------------------------------------------
(* get_ques_nemens_ent_spans *)

\* line 266: a question mention that is not grounded in the contexts
IsUngroundedMutant(entity_grounding) == FALSE

IsUngrounded(entity_grounding) == entity_grounding = -1

\* line 270
MenSpan(toks, ne_men) == QENT_PREFIX \o Join(Slice(toks, ne_men[2], ne_men[3]), SPAN_DELIM)

QentLinkingScoreMutant(toks, ne_men) == SliceAssign(Repeat(0, Len(toks)), ne_men[2], ne_men[2] + 1, <<1>>)

\* lines 276-277
QentLinkingScore(toks, ne_men) ==
    SliceAssign(Repeat(0, Len(toks)), ne_men[2], ne_men[3],
                Repeat(1, ne_men[3] - ne_men[2]))

\* lines 265-282: the loop over zip(q_ent_ners, q_entmens2entidx)
RECURSIVE QentSpansLoop(_, _, _, _, _)
QentSpansLoop(toks, ners, groundings, i, st) ==
    IF i > Len(ners) \/ i > Len(groundings) THEN st
    ELSE LET ne_men == ners[i]
             entity_grounding == groundings[i]
             men_span == MenSpan(toks, ne_men)
         IN  IF IsUngrounded(entity_grounding)
             THEN QentSpansLoop(toks, ners, groundings, i + 1, st)
             ELSE IF men_span \in DOMAIN st.ques_spans2idx
             THEN QentSpansLoop(toks, ners, groundings, i + 1, st)
             ELSE QentSpansLoop(toks, ners, groundings, i + 1,
                    [raised |-> st.raised,
                     ques_spans |-> Append(st.ques_spans, men_span),
                     ques_spans2idx |->
                         DictSet(st.ques_spans2idx, men_span, NextSpanIdx(st.ques_spans2idx)),
                     ques_spans_linking_score |->
                         Append(st.ques_spans_linking_score, QentLinkingScore(toks, ne_men)),
                     ques_spans_spanidxs |->
                         Append(st.ques_spans_spanidxs,
                                SpanField(ne_men[2], ne_men[3] - 1, "question"))])

get_ques_nemens_ent_spans(toks, ners, groundings, st) ==
    QentSpansLoop(toks, ners, groundings, 1, st)

-----------------------------------------------------------------------------
(* processMens *)

\* Python's None, and a value that is not None
None == <<>>
Some(x) == <<x>>

\* ListField(items): the list it wraps
ListField(items) == items

\* FieldClass(entity_normval) for FieldClass NumberField or DateField
Field(FieldClass, entity_normval) ==
    [cls |-> FieldClass, empty |-> FALSE, val |-> entity_normval]

\* FieldClass.empty_object(): the canonical empty value of the type
EmptyObject(FieldClass) == [cls |-> FieldClass, empty |-> TRUE, val |-> 0]

\* lines 573, 600: the span that stands for "no mention in this context"
PlaceholderSpan(sequence_field) == SpanField(-1, -1, sequence_field)

\* line 573: the single entity made up when there are no entities at all
EmptyEntityMentionsMutant(contexts_tokenized) == <<>>

EmptyEntityMentions(contexts_tokenized) ==
    <<ListField([i \in 1 .. Len(contexts_tokenized) |->
                    ListField(<<PlaceholderSpan(contexts_tokenized[i])>>)])>>

\* lines 586, 592: exclusive end of the annotation made inclusive
MentionFieldMutant(mention_tuple, context_textfield) ==
    SpanField(mention_tuple[2], mention_tuple[3], context_textfield)

MentionField(mention_tuple, context_textfield) ==
    SpanField(mention_tuple[2], mention_tuple[3] - 1, context_textfield)

\* line 591: the condition asserted on a later mention of the entity
NormvalAgreesMutant(entity_normval, mention_normval) == TRUE

NormvalAgrees(entity_normval, mention_normval) == entity_normval = mention_normval

\* lines 587-591: entity_normval after one mention, or the exception raised
NormalizeStep(normalization_dict, entity_normval, mention_text) ==
    IF normalization_dict = None
    THEN [raised |-> "", entity_normval |-> entity_normval]
    ELSE IF mention_text \notin DOMAIN normalization_dict[1]
    THEN [raised |-> "KeyError", entity_normval |-> entity_normval]
    ELSE IF entity_normval = None
    THEN [raised |-> "", entity_normval |-> Some(normalization_dict[1][mention_text])]
    ELSE IF NormvalAgrees(entity_normval[1], normalization_dict[1][mention_text])
    THEN [raised |-> "", entity_normval |-> entity_normval]
    ELSE [raised |-> "AssertionError", entity_normval |-> entity_normval]

\* lines 583-593: the loop over the (c_idx, m_idx) pairs of one entity
RECURSIVE EntityLoop(_, _, _, _, _, _)
EntityLoop(mens, contexts_tokenized, normalization_dict, entity, k, acc) ==
    IF acc.raised # "" \/ k > Len(entity) THEN acc
    ELSE LET c_idx == entity[k][1]
             m_idx == entity[k][2]
         IN  IF c_idx >= Len(mens) \/ c_idx >= Len(contexts_tokenized)
             THEN [acc EXCEPT !.raised = "IndexError"]
             ELSE IF m_idx >= Len(mens[c_idx + 1])
             THEN [acc EXCEPT !.raised = "IndexError"]
             ELSE LET mention_tuple == mens[c_idx + 1][m_idx + 1]
                      context_textfield == contexts_tokenized[c_idx + 1]
                      n == NormalizeStep(normalization_dict, acc.entity_normval,
                                         mention_tuple[1])
                  IN  IF n.raised # ""
                      THEN [acc EXCEPT !.raised = n.raised]
                      ELSE EntityLoop(mens, contexts_tokenized, normalization_dict,
                                      entity, k + 1,
                                      [raised |-> "",
                                       entity_normval |-> n.entity_normval,
                                       entity_mentions |->
                                           [acc.entity_mentions EXCEPT ![c_idx + 1] =
                                               Append(@, MentionField(mention_tuple,
                                                                      context_textfield))]])

\* lines 598-602: a context without a mention of the entity gets the placeholder
WithPlaceholdersMutant(entity_mentions, contexts_tokenized) ==
    [c \in 1 .. Len(entity_mentions) |->
        ListField(Append(entity_mentions[c], PlaceholderSpan(contexts_tokenized[c])))]

WithPlaceholders(entity_mentions, contexts_tokenized) ==
    [c \in 1 .. Len(entity_mentions) |->
        ListField(IF Len(entity_mentions[c]) = 0
                  THEN <<PlaceholderSpan(contexts_tokenized[c])>>
                  ELSE entity_mentions[c])]

\* lines 579-612: the loop over the entities
RECURSIVE EntitiesLoop(_, _, _, _, _, _, _)
EntitiesLoop(mens, eqent2mens, contexts_tokenized, normalization_dict, FieldClass, e_idx, ret) ==
    IF ret.raised # "" \/ e_idx >= Len(eqent2mens) THEN ret
    ELSE LET entity == eqent2mens[e_idx + 1]
             acc == EntityLoop(mens, contexts_tokenized, normalization_dict, entity, 1,
                               [raised |-> "",
                                entity_normval |-> None,
                                entity_mentions |->
                                    [i \in 1 .. Len(contexts_tokenized) |-> <<>>]])
         IN  IF acc.raised # ""
             THEN [ret EXCEPT !.raised = acc.raised]
             ELSE IF normalization_dict # None /\ acc.entity_normval = None
             THEN [ret EXCEPT !.raised = "AssertionError"]
             ELSE EntitiesLoop(mens, eqent2mens, contexts_tokenized, normalization_dict,
                               FieldClass, e_idx + 1,
                               [raised |-> "",
                                all_entity_mentions |->
                                    Append(ret.all_entity_mentions,
                                           ListField(WithPlaceholders(acc.entity_mentions,
                                                                      contexts_tokenized))),
                                entity_normalizations |->
                                    IF normalization_dict # None
                                    THEN Some(Append(ret.entity_normalizations[1],
                                                     Field(FieldClass, acc.entity_normval[1])))
                                    ELSE None])

\* processMens(mens, eqent2mens, contexts_tokenized, normalization_dict, FieldClass):
\* [raised, all_entity_mentions, entity_normalizations]
processMens(mens, eqent2mens, contexts_tokenized, normalization_dict, FieldClass) ==
    IF Len(eqent2mens) = 0
    THEN [raised |-> "",
          all_entity_mentions |-> EmptyEntityMentions(contexts_tokenized),
          entity_normalizations |->
              IF normalization_dict # None THEN Some(<<EmptyObject(FieldClass)>>) ELSE None]
    ELSE EntitiesLoop(mens, eqent2mens, contexts_tokenized, normalization_dict, FieldClass, 0,
                      [raised |-> "",
                       all_entity_mentions |-> <<>>,
                       entity_normalizations |->
                           IF normalization_dict # None THEN Some(<<>>) ELSE None])

-----------------------------------------------------------------------------
(* Answer types and sentinels of datasets.hotpotqa.utils.constants *)

BOOL_TYPE == <<"bool">>
STRING_TYPE == <<"string">>
ENTITY_TYPE == <<"entity">>
NUM_TYPE == <<"num">>
DATE_TYPE == <<"date">>
NO_ANS_GROUNDING == [kind |-> "NO_ANS_GROUNDING", v |-> <<>>]

-----------------------------------------------------------------------------
(* SampleHotpotWorld: the grammar built over the question spans *)

RULE_ARROW == <<" -> ">>

\* the production rule "left -> right"
ProductionRule(left, right) == left \o RULE_ARROW \o right

\* rules that do not depend on the question
GlobalActions ==
    << ProductionRule(<<"@start@">>, <<"bool">>),
       ProductionRule(<<"bool">>, <<"[<QSTR:bool>, QSTR]">>),
       ProductionRule(<<"<QSTR:bool>">>, <<"ques_bool">>) >>

\* the terminal rule of a span: QSTR -> QSTR:..., QENT -> QENT:...
LinkedAction(span) ==
    ProductionRule(IF StartsWith(span, QENT_PREFIX) THEN <<"QENT">> ELSE <<"QSTR">>, span)

\* spans no question of the model contains: rules a world out of step with
\* the reader's span vocabulary would return
StraySpans == {QSTR_PREFIX \o <<"dog">>, QENT_PREFIX \o <<"dog">>}

\* world.all_possible_actions() for SampleHotpotWorld(ques_spans): the global
\* rules and one terminal rule per span; a world out of step adds a stray rule
AllPossibleActions(ques_spans) ==
    LET in_step == GlobalActions \o [i \in 1 .. Len(ques_spans) |-> LinkedAction(ques_spans[i])]
    IN  {in_step} \cup {Append(in_step, LinkedAction(stray)) : stray \in StraySpans}

-----------------------------------------------------------------------------
(* text_to_instance *)

\* line 310: the gold answer types instances are made for
SupportedAnsTypesMutant == {BOOL_TYPE, NUM_TYPE}

SupportedAnsTypes == {BOOL_TYPE}

\* lines 314, 367: text.strip().split(" ")
Tokenize(text) == Split(Strip(text), <<" ">>)

\* line 348
IsGlobalRule(rule_right_side) ==
    ~(StartsWith(rule_right_side, QSTR_PREFIX) \/ StartsWith(rule_right_side, QENT_PREFIX))

\* line 355: ques_spans2idx[rule_right_side]
SpanIdxLookupMutant(ques_spans2idx, rule_right_side) ==
    IF rule_right_side \in DOMAIN ques_spans2idx
    THEN [raised |-> "", idx |-> ques_spans2idx[rule_right_side]]
    ELSE [raised |-> "", idx |-> -1]

SpanIdxLookup(ques_spans2idx, rule_right_side) ==
    IF rule_right_side \in DOMAIN ques_spans2idx
    THEN [raised |-> "", idx |-> ques_spans2idx[rule_right_side]]
    ELSE [raised |-> "KeyError", idx |-> -1]

\* lines 346-355: the loop over world.all_possible_actions()
RECURSIVE LinkActionsLoop(_, _, _, _)
LinkActionsLoop(all_possible_actions, ques_spans2idx, i, acc) ==
    IF acc.raised # "" \/ i > Len(all_possible_actions) THEN acc
    ELSE LET production_rule == all_possible_actions[i]
             sides == Split(production_rule, RULE_ARROW)
         IN  IF Len(sides) # 2
             THEN [acc EXCEPT !.raised = "ValueError"]
             ELSE LET rule_right_side == sides[2]
                      is_global_rule == IsGlobalRule(rule_right_side)
                      rule_field == [rule |-> production_rule,
                                     is_global_rule |-> is_global_rule]
                      found == SpanIdxLookup(ques_spans2idx, rule_right_side)
                  IN  IF is_global_rule
                      THEN LinkActionsLoop(all_possible_actions, ques_spans2idx, i + 1,
                              [acc EXCEPT !.production_rule_fields = Append(@, rule_field)])
                      ELSE IF found.raised # ""
                      THEN [acc EXCEPT !.raised = found.raised]
                      ELSE LinkActionsLoop(all_possible_actions, ques_spans2idx, i + 1,
                              [raised |-> "",
                               production_rule_fields |->
                                   Append(acc.production_rule_fields, rule_field),
                               linked_rule2idx |->
                                   DictSet(acc.linked_rule2idx, production_rule, found.idx)])

LinkActions(all_possible_actions, ques_spans2idx) ==
    LinkActionsLoop(all_possible_actions, ques_spans2idx, 1,
                    [raised |-> "", production_rule_fields |-> <<>>,
                     linked_rule2idx |-> EmptyDict])

\* line 502-503: one placeholder span per context
EmptyStringGroundingMutant(num_contexts, contexts_tokenized) ==
    [i \in 1 .. num_contexts |-> ListField(<<>>)]

EmptyStringGrounding(num_contexts, contexts_tokenized) ==
    [i \in 1 .. num_contexts |-> ListField(<<SpanField(-1, -1, contexts_tokenized[i])>>)]

\* emptyAnsGroundings: the dict {type: empty grounding}
emptyAnsGroundings(num_contexts, num_enttype_ents, num_num_ents, num_date_ents, contexts_tokenized) ==
    LET bool_grounding == <<0>>
        string_grounding == EmptyStringGrounding(num_contexts, contexts_tokenized)
        ent_grounding == Repeat(0, num_enttype_ents)
        num_grounding == Repeat(0, num_num_ents)
        date_grounding == Repeat(0, num_date_ents)
    IN  DictSet(DictSet(DictSet(DictSet(DictSet(EmptyDict,
            BOOL_TYPE, bool_grounding),
            STRING_TYPE, string_grounding),
            ENTITY_TYPE, ent_grounding),
            DATE_TYPE, date_grounding),
            NUM_TYPE, num_grounding)

\* lines 528-530 of processStringGrounding: the loop over the grounding
RECURSIVE StringGroundingLoop(_, _, _, _)
StringGroundingLoop(preprocessed_string_grounding, contexts_tokenized, i, acc) ==
    IF acc.raised # "" \/ i > Len(preprocessed_string_grounding) THEN acc
    ELSE LET context_idx == preprocessed_string_grounding[i][1]
             start == preprocessed_string_grounding[i][2][1]
             end == preprocessed_string_grounding[i][2][2]
         IN  IF context_idx >= Len(acc.allcontexts_ans_spans)
                \/ context_idx >= Len(contexts_tokenized)
             THEN [acc EXCEPT !.raised = "IndexError"]
             ELSE StringGroundingLoop(preprocessed_string_grounding, contexts_tokenized, i + 1,
                     [acc EXCEPT !.allcontexts_ans_spans[context_idx + 1] =
                         Append(@, SpanField(start, end - 1,
                                             contexts_tokenized[context_idx + 1]))])

\* processStringGrounding: [raised, allcontexts_ans_spans]
processStringGrounding(num_contexts, preprocessed_string_grounding, contexts_tokenized) ==
    LET filled == StringGroundingLoop(preprocessed_string_grounding, contexts_tokenized, 1,
                     [raised |-> "",
                      allcontexts_ans_spans |-> [i \in 1 .. num_contexts |-> <<>>]])
    IN  [raised |-> filled.raised,
         allcontexts_ans_spans |->
             [c \in 1 .. num_contexts |->
                 ListField(IF Len(filled.allcontexts_ans_spans[c]) = 0
                           THEN <<SpanField(-1, -1, contexts_tokenized[c])>>
                           ELSE filled.allcontexts_ans_spans[c])]]

\* what text_to_instance hands back: an Instance, None, or an exception
ReturnNone == [result |-> "None", raised |-> "", fields |-> EmptyDict]
Raise(exception) == [result |-> "raised", raised |-> exception, fields |-> EmptyDict]
Instance(fields) == [result |-> "Instance", raised |-> "", fields |-> fields]

\* line 442: the boolean gold grounding becomes a one-element list
WrapBoolGrounding(ans_grounding) == <<ans_grounding>>

\* lines 427-466: the fields with the answer groundings and the gold type
\* added, when a gold grounding is given
WithAnswerGrounding(fields, ans_type, ans_grounding, contexts, contexts_tokenized, num_enttype_ents, num_numtype_ents, num_datetype_ents) ==
    IF ans_grounding = None THEN Instance(fields)
    ELSE IF ans_type[1] = STRING_TYPE /\ ans_grounding[1] = NO_ANS_GROUNDING THEN ReturnNone
    ELSE LET str == IF ans_type[1] = STRING_TYPE
                    THEN processStringGrounding(Len(contexts), ans_grounding[1].v,
                                                contexts_tokenized)
                    ELSE [raised |-> "", allcontexts_ans_spans |-> <<>>]
             gold == IF ans_type[1] = STRING_TYPE THEN str.allcontexts_ans_spans
                     ELSE IF ans_type[1] = BOOL_TYPE THEN WrapBoolGrounding(ans_grounding[1].v)
                     ELSE ans_grounding[1].v
             empty_ans_groundings ==
                 emptyAnsGroundings(Len(contexts), num_enttype_ents, num_numtype_ents,
                                    num_datetype_ents, contexts_tokenized)
             ans_grounding_dict == DictSet(empty_ans_groundings, ans_type[1], gold)
         IN  IF str.raised # "" THEN Raise(str.raised)
             ELSE Instance(
                    [f \in (DOMAIN fields)
                            \cup {<<"ans_grounding_">> \o k : k \in DOMAIN ans_grounding_dict}
                            \cup {<<"gold_ans_type">>} |->
                        IF f \in DOMAIN fields THEN fields[f]
                        ELSE IF f = <<"gold_ans_type">> THEN ans_type[1]
                        ELSE ans_grounding_dict[Tail(f)]])

\* lines 365-370
TokenizeContexts(contexts) == [i \in 1 .. Len(contexts) |-> Tokenize(contexts[i][2])]

\* lines 365-496, after the actions have been linked
AssembleInstance(a, tokenized_ques, spans, world, linked) ==
    LET contexts_tokenized == TokenizeContexts(a.contexts)
        ent == processMens(a.contexts_ent_ners, a.context_eqent2entmens,
                           contexts_tokenized, None, "None")
        num == processMens(a.contexts_num_ners, a.context_eqent2nummens,
                           contexts_tokenized, Some(a.nums_normalized_dict), "NumberField")
        date == processMens(a.contexts_date_ners, a.context_eqent2datemens,
                            contexts_tokenized, Some(a.dates_normalized_dict), "DateField")
    IN  IF ent.raised # "" THEN Raise(ent.raised)
        ELSE IF num.raised # "" THEN Raise(num.raised)
        ELSE IF date.raised # "" THEN Raise(date.raised)
        ELSE LET fields ==
                    (<<"question">> :> tokenized_ques)
                    @@ (<<"contexts">> :> ListField(contexts_tokenized))
                    @@ (<<"ent_mens">> :> ListField(ent.all_entity_mentions))
                    @@ (<<"num_nents">> :> <<Len(a.context_eqent2entmens)>>)
                    @@ (<<"num_mens">> :> ListField(num.all_entity_mentions))
                    @@ (<<"num_numents">> :> <<Len(a.context_eqent2nummens)>>)
                    @@ (<<"date_mens">> :> ListField(date.all_entity_mentions))
                    @@ (<<"num_dateents">> :> <<Len(a.context_eqent2datemens)>>)
                    @@ (<<"num_normval">> :> ListField(num.entity_normalizations[1]))
                    @@ (<<"date_normval">> :> ListField(date.entity_normalizations[1]))
                    @@ (<<"worlds">> :> world)
                    @@ (<<"actions">> :> ListField(linked.production_rule_fields))
                    @@ (<<"linked_rule2idx">> :> linked.linked_rule2idx)
                    @@ (<<"action2ques_linkingscore">> :> spans.ques_spans_linking_score)
                    @@ (<<"ques_str_action_spans">> :> ListField(spans.ques_spans_spanidxs))
             IN  WithAnswerGrounding(fields, a.ans_type, a.ans_grounding, a.contexts,
                                     contexts_tokenized,
                                     Len(a.context_eqent2entmens),
                                     Len(a.context_eqent2nummens),
                                     Len(a.context_eqent2datemens))

\* what is known of a call that did not get as far as the spans or the world
NoTrace == [tokenized_ques |-> None, spans |-> None, all_possible_actions |-> None]

\* lines 314-496: what text_to_instance does with a record that passed the
\* answer-type gate
ProcessExample(a, uniq_ques_tokens, all_possible_actions) ==
    LET tokenized_ques == Tokenize(a.ques)
        s1 == get_ques_spans(tokenized_ques, uniq_ques_tokens)
        spans == get_ques_nemens_ent_spans(tokenized_ques, a.q_nemens,
                                           a.qnemens_to_ent, s1)
        linked == LinkActions(all_possible_actions, spans.ques_spans2idx)
        world == [ques_spans |-> spans.ques_spans]
    IN  IF s1.raised # ""
        THEN [ret |-> Raise(s1.raised), tokenized_ques |-> Some(tokenized_ques),
              spans |-> None, all_possible_actions |-> None]
        ELSE [ret |-> IF linked.raised # "" THEN Raise(linked.raised)
                      ELSE AssembleInstance(a, tokenized_ques, spans, world, linked),
              tokenized_ques |-> Some(tokenized_ques),
              spans |-> Some(spans),
              all_possible_actions |-> Some(all_possible_actions)]

\* lines 310-311: the gold answer type is not one the reader supports
UnsupportedAnsType(ans_type) == ans_type = None \/ ans_type[1] \notin SupportedAnsTypes

TextToInstanceMutant(a, uniq_ques_tokens, all_possible_actions) ==
    LET processed == ProcessExample(a, uniq_ques_tokens, all_possible_actions)
    IN  IF processed.ret.result = "raised" THEN processed
        ELSE IF UnsupportedAnsType(a.ans_type) THEN [ret |-> ReturnNone] @@ NoTrace
        ELSE processed

\* text_to_instance(...): the arguments a, the order the set of question
\* tokens is iterated in, and the action inventory the world returns
TextToInstance(a, uniq_ques_tokens, all_possible_actions) ==
    IF UnsupportedAnsType(a.ans_type)
    THEN [ret |-> ReturnNone] @@ NoTrace
    ELSE ProcessExample(a, uniq_ques_tokens, all_possible_actions)

-----------------------------------------------------------------------------
(* Span extraction on its own: get_ques_spans, then                        *)
(* get_ques_nemens_ent_spans on the accumulators it returned               *)
(* (text_to_instance, lines 322-330).                                      *)

MaxQuesLen == 3
MaxQuesMens == 2

Unused == "unused"

\* token values of the questions tried; the last one contains SPAN_DELIM
TokenValues == {<<"the">>, <<"cat">>, <<"the", "***", "cat">>}

\* entity indices a question mention is grounded to; -1 is "not grounded"
GroundingValues == {-1, 0}

Questions == UNION {[1 .. n -> TokenValues] : n \in 1 .. MaxQuesLen}

\* well-formed mentions of a question of n tokens: 0 <= start < end <= n
QuesMentions(n) ==
    {<<"men", se[1], se[2], "ENT">> :
        se \in {x \in (0 .. (n - 1)) \X (1 .. n) : x[1] < x[2]}}

SpansInit ==
    /\ pc = "get_ques_spans"
    /\ ques_tokens \in Questions
    /\ \E k \in 0 .. MaxQuesMens :
          /\ q_ent_ners \in [1 .. k -> QuesMentions(Len(ques_tokens))]
          /\ q_entmens2entidx \in [1 .. k -> GroundingValues]
    /\ tok_spans = NoSpans
    /\ ent_spans = NoSpans
    /\ mens_args = Unused
    /\ mens_ret = Unused
    /\ data_file = Unused
    /\ lines_read = Unused
    /\ emitted = Unused
    /\ call = Unused

GetQuesSpans ==
    /\ pc = "get_ques_spans"
    /\ \E uniq_ques_tokens \in SetOrders(ques_tokens) :
          tok_spans' = get_ques_spans(ques_tokens, uniq_ques_tokens)
    /\ pc' = IF tok_spans'.raised # "" THEN "raised" ELSE "get_ques_nemens_ent_spans"
    /\ UNCHANGED <<ques_tokens, q_ent_ners, q_entmens2entidx, ent_spans,
                   mens_args, mens_ret, data_file, lines_read, emitted, call>>

GetQuesNemensEntSpans ==
    /\ pc = "get_ques_nemens_ent_spans"
    /\ ent_spans' = get_ques_nemens_ent_spans(ques_tokens, q_ent_ners,
                                                q_entmens2entidx, tok_spans)
    /\ pc' = "spans_done"
    /\ UNCHANGED <<ques_tokens, q_ent_ners, q_entmens2entidx, tok_spans,
                   mens_args, mens_ret, data_file, lines_read, emitted, call>>

SpansNext == GetQuesSpans \/ GetQuesNemensEntSpans

SpansSpec == SpansInit /\ [][SpansNext]_vars

-----------------------------------------------------------------------------
(* Claims about span extraction *)

TokenSet(toks) == {toks[i] : i \in DOMAIN toks}

\* position (0-based) of the first occurrence of a token value
FirstOccurrence(toks, v) == Min({i \in DOMAIN toks : toks[i] = v}) - 1

\* 1 where the question token equals v, 0 elsewhere
OccurrenceVector(toks, v) == [p \in 1 .. Len(toks) |-> IF toks[p] = v THEN 1 ELSE 0]

GetQuesSpansReturned == pc \in {"get_ques_nemens_ent_spans", "spans_done"}
GetQuesSpansCalled == GetQuesSpansReturned \/ pc = "raised"

\* C1: for every question token sequence get_ques_spans produces exactly one
\* span QSTR:v for each distinct token value v and no other span, and the
\* linking score of that span is 1 at the positions whose token equals v and
\* 0 at every other position.
C1_OneSpanPerValueScoredAtOccurrences ==
    GetQuesSpansCalled =>
        /\ tok_spans.raised = ""
        /\ Len(tok_spans.ques_spans) = Cardinality(TokenSet(ques_tokens))
        /\ {tok_spans.ques_spans[i] : i \in DOMAIN tok_spans.ques_spans}
              = {QSTR_PREFIX \o v : v \in TokenSet(ques_tokens)}
        /\ Len(tok_spans.ques_spans_linking_score) = Len(tok_spans.ques_spans)
        /\ \A i \in DOMAIN tok_spans.ques_spans :
              tok_spans.ques_spans_linking_score[i]
                 = OccurrenceVector(ques_tokens, Tail(tok_spans.ques_spans[i]))

\* C2: the QSTR spans are listed in the order of the first occurrence of
\* their token value in the question.
C2_SpansInFirstOccurrenceOrder ==
    GetQuesSpansReturned =>
        \A i, j \in DOMAIN tok_spans.ques_spans :
            FirstOccurrence(ques_tokens, Tail(tok_spans.ques_spans[i]))
                < FirstOccurrence(ques_tokens, Tail(tok_spans.ques_spans[j]))
            => i < j

\* the list without its i-th element
Without(lst, i) == SubSeq(lst, 1, i - 1) \o SubSeq(lst, i + 1, Len(lst))

\* C3: a question mention whose grounding is -1 adds nothing: the spans, the
\* span-to-index map, the linking scores and the span boundaries are what
\* the call returns when the mention and its grounding are left out.
C3_UngroundedMentionAddsNothing ==
    pc = "spans_done" =>
        \A i \in DOMAIN q_ent_ners :
            q_entmens2entidx[i] = -1 =>
                ent_spans = get_ques_nemens_ent_spans(ques_tokens, Without(q_ent_ners, i),
                                                      Without(q_entmens2entidx, i), tok_spans)

\* an ungrounded mention next to a grounded one that did add a span
C3_Witness ==
    /\ pc = "spans_done"
    /\ \E i \in DOMAIN q_ent_ners : q_entmens2entidx[i] = -1
    /\ Len(ent_spans.ques_spans) > Len(tok_spans.ques_spans)

-----------------------------------------------------------------------------
(* processMens on its own, as text_to_instance calls it for the number     *)
(* mentions (lines 379-382) and for the entity mentions (lines 374-375).   *)

MaxClusters == 2
MaxClusterLen == 2

\* two tokenized contexts
Passage0 == <<<<"ten">>, <<"or">>, <<"10">>, <<"10">>>>
Passage1 == <<<<"in">>, <<"ten">>, <<"10">>, <<"10">>>>

\* mention tuples (text, start, end, label), end exclusive
MenTen == <<<<"ten">>, 0, 1, "NUM">>
MenTenLate == <<<<"ten">>, 1, 2, "NUM">>
MenDigits == <<<<"10">>, 2, 4, "NUM">>

\* the annotated contexts tried: the contexts and, for each, its mentions
MensLayouts ==
    { [contexts_tokenized |-> <<Passage0>>, mens |-> <<<<MenTen, MenDigits>>>>],
      [contexts_tokenized |-> <<Passage0, Passage1>>, mens |-> <<<<MenTen>>, <<MenDigits>>>>],
      [contexts_tokenized |-> <<Passage0, Passage1>>, mens |-> <<<<MenTen, MenDigits>>, <<>>>>],
      [contexts_tokenized |-> <<Passage0, Passage1>>, mens |-> <<<<MenDigits>>, <<MenTenLate>>>>] }

\* the normalization dictionaries tried: none, one where both texts mean the
\* same number, one where they differ, one that lacks a text
NormalizationDicts ==
    { None,
      Some([t \in {<<"ten">>, <<"10">>} |-> 10]),
      Some([t \in {<<"ten">>, <<"10">>} |-> IF t = <<"ten">> THEN 10 ELSE 11]),
      Some([t \in {<<"ten">>} |-> 10]) }

\* (c_idx, m_idx) of the mentions that exist
ValidRefs(mens) ==
    {r \in Range0(Len(mens)) \X Range0(MaxClusterLen + 2) : r[2] < Len(mens[r[1] + 1])}

\* a mention index that does not exist in the last context
DanglingRef(mens) == <<Len(mens) - 1, Len(mens[Len(mens)])>>

\* entity clusters: lists of mention references
Clusters(mens) ==
    UNION {[1 .. j -> ValidRefs(mens) \cup {DanglingRef(mens)}] : j \in 0 .. MaxClusterLen}

Clusterings(mens) == UNION {[1 .. k -> Clusters(mens)] : k \in 0 .. MaxClusters}

MensInit ==
    /\ pc = "processMens"
    /\ \E layout \in MensLayouts :
       \E normalization_dict \in NormalizationDicts :
       \E eqent2mens \in Clusterings(layout.mens) :
          mens_args = [mens |-> layout.mens,
                       eqent2mens |-> eqent2mens,
                       contexts_tokenized |-> layout.contexts_tokenized,
                       normalization_dict |-> normalization_dict,
                       FieldClass |-> IF normalization_dict = None
                                      THEN "None" ELSE "NumberField"]
    /\ mens_ret = Unused
    /\ ques_tokens = Unused
    /\ q_ent_ners = Unused
    /\ q_entmens2entidx = Unused
    /\ tok_spans = Unused
    /\ ent_spans = Unused
    /\ data_file = Unused
    /\ lines_read = Unused
    /\ emitted = Unused
    /\ call = Unused

ProcessMens ==
    /\ pc = "processMens"
    /\ mens_ret' = processMens(mens_args.mens, mens_args.eqent2mens,
                               mens_args.contexts_tokenized,
                               mens_args.normalization_dict, mens_args.FieldClass)
    /\ pc' = IF mens_ret'.raised # "" THEN "mens_raised" ELSE "mens_done"
    /\ UNCHANGED <<ques_tokens, q_ent_ners, q_entmens2entidx, tok_spans, ent_spans,
                   mens_args, data_file, lines_read, emitted, call>>

MensNext == ProcessMens

MensSpec == MensInit /\ [][MensNext]_vars

-----------------------------------------------------------------------------
(* Claims about processMens *)

ProcessMensCalled == pc \in {"mens_done", "mens_raised"}

\* the mention a reference names exists
RefExists(mens, r) == r[1] < Len(mens) /\ r[2] < Len(mens[r[1] + 1])

\* the references of a cluster into context c (0-based), in cluster order
RECURSIVE RefsInto(_, _)
RefsInto(entity, c) ==
    IF Len(entity) = 0 THEN <<>>
    ELSE IF entity[1][1] = c THEN <<entity[1]>> \o RefsInto(Tail(entity), c)
    ELSE RefsInto(Tail(entity), c)

\* what the claim expects for one entity in one context
ExpectedContextSpans(mens, contexts_tokenized, entity, c) ==
    LET refs == RefsInto(entity, c)
    IN  IF Len(refs) = 0
        THEN <<[span_start |-> -1, span_end |-> -1,
                sequence_field |-> contexts_tokenized[c + 1]]>>
        ELSE [k \in 1 .. Len(refs) |->
                 [span_start |-> mens[c + 1][refs[k][2] + 1][2],
                  span_end |-> mens[c + 1][refs[k][2] + 1][3] - 1,
                  sequence_field |-> contexts_tokenized[c + 1]]]

\* C6: for every entity cluster the structure processMens returns has one
\* list per passage; a passage without a mention of the entity holds the one
\* placeholder span (-1,-1), a passage with k >= 1 mentions holds exactly
\* those k spans (start, end_exclusive - 1) in cluster order, no placeholder.
C6_PerPassageMentionLists ==
    (pc = "mens_done" /\ Len(mens_args.eqent2mens) > 0) =>
        /\ Len(mens_ret.all_entity_mentions) = Len(mens_args.eqent2mens)
        /\ \A e \in DOMAIN mens_args.eqent2mens :
              /\ Len(mens_ret.all_entity_mentions[e]) = Len(mens_args.contexts_tokenized)
              /\ \A c \in Range0(Len(mens_args.contexts_tokenized)) :
                    mens_ret.all_entity_mentions[e][c + 1]
                       = ExpectedContextSpans(mens_args.mens, mens_args.contexts_tokenized,
                                              mens_args.eqent2mens[e], c)

\* an entity with two mentions in one passage and none in another
C6_Witness ==
    /\ pc = "mens_done"
    /\ \E e \in DOMAIN mens_args.eqent2mens :
          /\ \E c \in DOMAIN mens_ret.all_entity_mentions[e] :
                /\ Len(mens_ret.all_entity_mentions[e][c]) = 2
                /\ mens_ret.all_entity_mentions[e][c][1].span_start
                      > mens_ret.all_entity_mentions[e][c][2].span_start
          /\ \E c \in DOMAIN mens_ret.all_entity_mentions[e] :
                mens_ret.all_entity_mentions[e][c][1].span_start = -1

\* the normalized value the dictionary gives the mention a reference names
RefNormval(r) == mens_args.normalization_dict[1][mens_args.mens[r[1] + 1][r[2] + 1][1]]

RefNormalized(r) ==
    /\ RefExists(mens_args.mens, r)
    /\ mens_args.mens[r[1] + 1][r[2] + 1][1] \in DOMAIN mens_args.normalization_dict[1]

\* some entity has two mentions with different normalized values
NormvalConflict ==
    /\ mens_args.normalization_dict # None
    /\ \E e \in DOMAIN mens_args.eqent2mens :
          \E i, j \in DOMAIN mens_args.eqent2mens[e] :
              /\ RefNormalized(mens_args.eqent2mens[e][i])
              /\ RefNormalized(mens_args.eqent2mens[e][j])
              /\ RefNormval(mens_args.eqent2mens[e][i]) # RefNormval(mens_args.eqent2mens[e][j])

\* every reference names a mention whose text the dictionary knows
AllRefsNormalized ==
    \A e \in DOMAIN mens_args.eqent2mens :
        \A i \in DOMAIN mens_args.eqent2mens[e] : RefNormalized(mens_args.eqent2mens[e][i])

\* C7: with a normalization dictionary, an entity with two mentions whose
\* texts map to different values makes processMens fail (the assertion, when
\* nothing else is wrong with the input) and return nothing; when it returns,
\* each entity's normalized value is the value of every one of its mentions.
C7_NormvalConflictIsFatal ==
    ProcessMensCalled =>
        /\ NormvalConflict =>
              /\ pc = "mens_raised"
              /\ mens_ret.raised # ""
              /\ AllRefsNormalized => mens_ret.raised = "AssertionError"
        /\ (pc = "mens_done" /\ mens_args.normalization_dict # None
               /\ Len(mens_args.eqent2mens) > 0) =>
              /\ Len(mens_ret.entity_normalizations[1]) = Len(mens_args.eqent2mens)
              /\ \A e \in DOMAIN mens_args.eqent2mens :
                    \A i \in DOMAIN mens_args.eqent2mens[e] :
                        /\ mens_ret.entity_normalizations[1][e].cls = mens_args.FieldClass
                        /\ mens_ret.entity_normalizations[1][e].val
                              = RefNormval(mens_args.eqent2mens[e][i])

\* a conflicting entity after one that is consistent
C7_Witness ==
    /\ pc = "mens_raised"
    /\ NormvalConflict
    /\ AllRefsNormalized
    /\ mens_ret.raised = "AssertionError"
    /\ Len(mens_args.eqent2mens) = 2
    /\ Len(mens_args.eqent2mens[1]) = 2

\* C8: with zero entity clusters processMens returns one synthetic entity
\* with one list per passage, each holding only the placeholder span (-1,-1);
\* the normalized values are the one canonical empty value of the type when
\* normalization is requested and None when it is not.
C8_NoClustersGivesOnePlaceholderEntity ==
    (ProcessMensCalled /\ Len(mens_args.eqent2mens) = 0) =>
        /\ pc = "mens_done"
        /\ Len(mens_ret.all_entity_mentions) = 1
        /\ Len(mens_ret.all_entity_mentions[1]) = Len(mens_args.contexts_tokenized)
        /\ \A c \in DOMAIN mens_args.contexts_tokenized :
              mens_ret.all_entity_mentions[1][c]
                 = <<[span_start |-> -1, span_end |-> -1,
                      sequence_field |-> mens_args.contexts_tokenized[c]]>>
        /\ mens_args.normalization_dict # None =>
              mens_ret.entity_normalizations = <<<<EmptyObject(mens_args.FieldClass)>>>>
        /\ mens_args.normalization_dict = None => mens_ret.entity_normalizations = <<>>

\* zero clusters, two passages, normalization requested
C8_Witness ==
    /\ pc = "mens_done"
    /\ Len(mens_args.eqent2mens) = 0
    /\ Len(mens_args.contexts_tokenized) = 2
    /\ mens_args.normalization_dict # None
    /\ Len(mens_ret.all_entity_mentions) = 1

-----------------------------------------------------------------------------
(* _read: the lines of the file, one text_to_instance call per line *)

MaxLines == 2

\* the fields _read takes from every record (lines 106-134)
RequiredFields ==
    {"q_field", "q_ent_ner_field", "context_field", "context_ent_ner_field",
     "context_num_ner_field", "context_date_ner_field", "context_entmens2entidx",
     "context_nummens2entidx", "context_datemens2entidx", "context_eqent2entmens",
     "context_eqent2nummens", "context_eqent2datemens", "dates_normalized_field",
     "nums_normalized_field", "q_entmens2entidx"}

\* lines 106-140: the arguments handed to text_to_instance, or the KeyError
\* of a record that lacks a field
ReadArgs(data) ==
    IF ~(RequiredFields \subseteq DOMAIN data)
       \/ ("ans_type_field" \in DOMAIN data /\ "ans_grounding_field" \notin DOMAIN data)
    THEN [raised |-> "KeyError"]
    ELSE [raised |-> "",
          ques |-> data["q_field"],
          q_nemens |-> data["q_ent_ner_field"],
          contexts |-> data["context_field"],
          contexts_ent_ners |-> data["context_ent_ner_field"],
          contexts_num_ners |-> data["context_num_ner_field"],
          contexts_date_ners |-> data["context_date_ner_field"],
          context_entmens2entidx |-> data["context_entmens2entidx"],
          context_nummens2entidx |-> data["context_nummens2entidx"],
          context_datemens2entidx |-> data["context_datemens2entidx"],
          context_eqent2entmens |-> data["context_eqent2entmens"],
          context_eqent2nummens |-> data["context_eqent2nummens"],
          context_eqent2datemens |-> data["context_eqent2datemens"],
          dates_normalized_dict |-> data["dates_normalized_field"],
          nums_normalized_dict |-> data["nums_normalized_field"],
          qnemens_to_ent |-> data["q_entmens2entidx"],
          ans_type |-> IF "ans_type_field" \in DOMAIN data
                       THEN Some(data["ans_type_field"]) ELSE None,
          ans_grounding |-> IF "ans_type_field" \in DOMAIN data
                            THEN data["ans_grounding_field"] ELSE None]

\* --- the records tried ---

\* question texts: a repeated token; a token holding the span delimiter whose
\* pieces are no tokens; one whose pieces are tokens
QuesRepeated == <<" ", "the", " ", "cat", " ", "the">>
QuesDelimAlone == <<"the", "***", "cat", " ", "cat">>
QuesDelimPieces == <<"the", " ", "cat", " ", "the", "***", "cat">>
QuesTexts == {QuesRepeated, QuesDelimAlone, QuesDelimPieces}

\* question mentions with their groundings
NoQuesMens == [q_ent_ner_field |-> <<>>, q_entmens2entidx |-> <<>>]
OneQuesMen == [q_ent_ner_field |-> <<<<"the cat", 0, 2, "ENT">>>>, q_entmens2entidx |-> <<0>>]
TwoQuesMens == [q_ent_ner_field |-> <<<<"the cat", 0, 2, "ENT">>, <<"cat", 1, 2, "ENT">>>>,
                q_entmens2entidx |-> <<-1, 0>>]
QuesMens == {NoQuesMens, OneQuesMen, TwoQuesMens}

Contexts == <<<<"title0", Join(Passage0, <<" ">>)>>, <<"title1", Join(Passage1, <<" ">>)>>>>

MenIn == <<<<"in">>, 0, 1, "ENT">>
MenOr == <<<<"or">>, 1, 2, "ENT">>
MenYear == <<<<"10">>, 3, 4, "DATE">>

NumsDict == [t \in {<<"ten">>, <<"10">>} |-> 10]
NumsDictConflict == [t \in {<<"ten">>, <<"10">>} |-> IF t = <<"ten">> THEN 10 ELSE 11]
DatesDict == [t \in {<<"10">>} |-> <<-1, -1, 10>>]

\* mention annotations: entities of each type present
MensPresent ==
    [context_ent_ner_field |-> <<<<MenOr>>, <<MenIn>>>>,
     context_eqent2entmens |-> <<<<<<0, 0>>, <<1, 0>>>>>>,
     context_num_ner_field |-> <<<<MenTen, MenDigits>>, <<MenTenLate>>>>,
     context_eqent2nummens |-> <<<<<<0, 0>>, <<1, 0>>>>, <<<<0, 1>>>>>>,
     nums_normalized_field |-> NumsDict,
     context_date_ner_field |-> <<<<>>, <<MenYear>>>>,
     context_eqent2datemens |-> <<<<<<1, 0>>>>>>,
     dates_normalized_field |-> DatesDict]

\* a number entity whose two mentions have different normalized values
MensConflict ==
    [MensPresent EXCEPT !.context_eqent2nummens = <<<<<<0, 0>>, <<0, 1>>>>>>,
                        !.nums_normalized_field = NumsDictConflict]

\* an entity that refers to a mention index that does not exist
MensDangling ==
    [MensPresent EXCEPT !.context_eqent2entmens = <<<<<<0, 0>>, <<1, 1>>>>>>]

\* no entity of any type
MensAbsent ==
    [MensPresent EXCEPT !.context_eqent2entmens = <<>>,
                        !.context_eqent2nummens = <<>>,
                        !.context_eqent2datemens = <<>>]

MensVariants == {MensPresent, MensConflict, MensDangling, MensAbsent}

\* gold supervision: none, or the type with its raw grounding
NoAnswer == EmptyDict
Answer(type, grounding) ==
    [f \in {"ans_type_field", "ans_grounding_field"} |->
        IF f = "ans_type_field" THEN type ELSE grounding]
BoolAnswers ==
    {Answer(BOOL_TYPE, Some([kind |-> "value", v |-> 1])),
     Answer(BOOL_TYPE, Some([kind |-> "value", v |-> 0])),
     Answer(BOOL_TYPE, None)}
OtherAnswers ==
    {NoAnswer,
     Answer(STRING_TYPE, Some(NO_ANS_GROUNDING)),
     Answer(STRING_TYPE, Some([kind |-> "value", v |-> <<<<1, <<2, 4>>>>>>])),
     Answer(ENTITY_TYPE, Some([kind |-> "value", v |-> <<1>>])),
     Answer(NUM_TYPE, Some([kind |-> "value", v |-> <<0, 1>>])),
     Answer(DATE_TYPE, Some([kind |-> "value", v |-> <<1>>]))}
Answers == BoolAnswers \cup OtherAnswers

BaseAnswer == Answer(BOOL_TYPE, Some([kind |-> "value", v |-> 1]))

\* the JSON object of one example
Example(ques, ques_mens, mens, answer) ==
    [f \in {"q_field", "context_field", "context_entmens2entidx",
            "context_nummens2entidx", "context_datemens2entidx"}
           \cup DOMAIN ques_mens \cup DOMAIN mens \cup DOMAIN answer |->
        IF f = "q_field" THEN ques
        ELSE IF f = "context_field" THEN Contexts
        ELSE IF f \in DOMAIN ques_mens THEN ques_mens[f]
        ELSE IF f \in DOMAIN mens THEN mens[f]
        ELSE IF f \in DOMAIN answer THEN answer[f]
        ELSE <<>>]

\* one dimension varied at a time around a boolean example, and the mention
\* variants also under an unsupported gold type
Examples ==
    {Example(q, OneQuesMen, MensPresent, BaseAnswer) : q \in QuesTexts}
    \cup {Example(QuesRepeated, m, MensPresent, BaseAnswer) : m \in QuesMens}
    \cup {Example(QuesRepeated, OneQuesMen, v, BaseAnswer) : v \in MensVariants}
    \cup {Example(QuesRepeated, OneQuesMen, v, Answer(STRING_TYPE, Some(NO_ANS_GROUNDING))) :
             v \in MensVariants}
    \cup {Example(QuesRepeated, OneQuesMen, MensPresent, a) : a \in Answers}

\* a record that lacks the question
MissingFieldExample ==
    [f \in DOMAIN Example(QuesRepeated, OneQuesMen, MensPresent, BaseAnswer) \ {"q_field"} |->
        Example(QuesRepeated, OneQuesMen, MensPresent, BaseAnswer)[f]]

BlankLine == [blank |-> TRUE, data |-> EmptyDict]
JsonLine(data) == [blank |-> FALSE, data |-> data]

Lines == {BlankLine, JsonLine(MissingFieldExample)} \cup {JsonLine(e) : e \in Examples}

\* a line taken from the file and how its turn of the loop ended: "blank"
\* (continue), "None" / "Instance" (what text_to_instance returned) or "raised"
LineRead(line, result) == [line |-> line, result |-> result]

NoCall == [args |-> None, ret |-> ReturnNone] @@ NoTrace

Init ==
    /\ pc = "read"
    /\ data_file \in UNION {[1 .. n -> Lines] : n \in 0 .. MaxLines}
    /\ lines_read = <<>>
    /\ emitted = <<>>
    /\ call = NoCall
    /\ ques_tokens = Unused
    /\ q_ent_ners = Unused
    /\ q_entmens2entidx = Unused
    /\ tok_spans = Unused
    /\ ent_spans = Unused
    /\ mens_args = Unused
    /\ mens_ret = Unused

\* lines 100-102: a blank line is passed over
SkipBlankLine ==
    /\ pc = "read"
    /\ data_file # <<>>
    /\ Head(data_file).blank
    /\ data_file' = Tail(data_file)
    /\ lines_read' = Append(lines_read, LineRead(Head(data_file), "blank"))
    /\ UNCHANGED <<pc, emitted, call, ques_tokens, q_ent_ners, q_entmens2entidx,
                   tok_spans, ent_spans, mens_args, mens_ret>>

\* lines 103-134: a record that lacks a field ends the generator with KeyError
ReadMalformed ==
    /\ pc = "read"
    /\ data_file # <<>>
    /\ ~Head(data_file).blank
    /\ ReadArgs(Head(data_file).data).raised # ""
    /\ pc' = "raised"
    /\ data_file' = Tail(data_file)
    /\ lines_read' = Append(lines_read, LineRead(Head(data_file), "raised"))
    /\ UNCHANGED <<emitted, call, ques_tokens, q_ent_ners, q_entmens2entidx,
                   tok_spans, ent_spans, mens_args, mens_ret>>

YieldMutant(yielded, instance) == IF instance.result = "Instance" THEN <<instance.fields>> \o yielded ELSE yielded

\* lines 159-160: the instance is yielded unless it is None
Yield(yielded, instance) == IF instance.result = "Instance" THEN Append(yielded, instance.fields) ELSE yielded

AfterCallMutant(instance) == "read"

\* lines 142-160: an exception of text_to_instance leaves the generator, any
\* return goes on to the next line
AfterCall(instance) == IF instance.result = "raised" THEN "raised" ELSE "read"

\* lines 103-160: one record is read, text_to_instance is called, and the
\* instance is yielded unless it is None; an exception ends the generator
ReadExample ==
    /\ pc = "read"
    /\ data_file # <<>>
    /\ ~Head(data_file).blank
    /\ LET a == ReadArgs(Head(data_file).data)
       IN  /\ a.raised = ""
           /\ \E uniq_ques_tokens \in SetOrders(Tokenize(a.ques)) :
                 LET s1 == get_ques_spans(Tokenize(a.ques), uniq_ques_tokens)
                     spans == get_ques_nemens_ent_spans(Tokenize(a.ques), a.q_nemens,
                                                        a.qnemens_to_ent, s1)
                 IN  \E all_possible_actions \in AllPossibleActions(spans.ques_spans) :
                        LET t == TextToInstance(a, uniq_ques_tokens, all_possible_actions)
                        IN  /\ call' = [args |-> Some(a)] @@ t
                            /\ emitted' = Yield(emitted, t.ret)
                            /\ pc' = AfterCall(t.ret)
                            /\ lines_read' = Append(lines_read,
                                                    LineRead(Head(data_file), t.ret.result))
    /\ data_file' = Tail(data_file)
    /\ UNCHANGED <<ques_tokens, q_ent_ners, q_entmens2entidx, tok_spans, ent_spans,
                   mens_args, mens_ret>>

\* line 99: the file is exhausted
EndOfFile ==
    /\ pc = "read"
    /\ data_file = <<>>
    /\ pc' = "eof"
    /\ UNCHANGED <<data_file, lines_read, emitted, call, ques_tokens, q_ent_ners, q_entmens2entidx,
                   tok_spans, ent_spans, mens_args, mens_ret>>

Next == SkipBlankLine \/ ReadMalformed \/ ReadExample \/ EndOfFile

Spec == Init /\ [][Next]_vars

-----------------------------------------------------------------------------
(* Claims about text_to_instance *)

AnswerTypes == {BOOL_TYPE, STRING_TYPE, ENTITY_TYPE, NUM_TYPE, DATE_TYPE}

TextToInstanceCalled == call.args # None

\* the right-hand side of a production rule
RightSide(production_rule) == Split(production_rule, RULE_ARROW)[2]

HasLinkedPrefix(rule_right_side) ==
    StartsWith(rule_right_side, QSTR_PREFIX) \/ StartsWith(rule_right_side, QENT_PREFIX)

\* 1 at the positions start .. end-1 of a question of n tokens, 0 elsewhere
RangeVector(n, start, end) == [p \in 1 .. n |-> IF start < p /\ p <= end THEN 1 ELSE 0]

\* the linking score the span extractors are to give a span of the question
IsSpanScore(span, toks, q_nemens, qnemens_to_ent, score) ==
    IF StartsWith(span, QSTR_PREFIX)
    THEN (\A p \in DOMAIN span : span[p] # "***") => score = OccurrenceVector(toks, Tail(span))
    ELSE \E m \in DOMAIN q_nemens :
            /\ qnemens_to_ent[m] # -1
            /\ span = QENT_PREFIX \o Join(SubSeq(toks, q_nemens[m][2] + 1, q_nemens[m][3]),
                                           SPAN_DELIM)
            /\ score = RangeVector(Len(toks), q_nemens[m][2], q_nemens[m][3])

\* C4: in every instance, every linked (non-global) action is mapped by
\* linked_rule2idx to a valid row of the linking-score matrix, and that row
\* is the linking score computed for the span on the action's right side.
C4_LinkedActionIndexesItsSpanScore ==
    call.ret.result = "Instance" =>
        LET fields == call.ret.fields
            actions == fields[<<"actions">>]
            linked_rule2idx == fields[<<"linked_rule2idx">>]
            matrix == fields[<<"action2ques_linkingscore">>]
            spans == call.spans[1]
        IN  \A i \in DOMAIN actions :
                ~actions[i].is_global_rule =>
                    /\ actions[i].rule \in DOMAIN linked_rule2idx
                    /\ linked_rule2idx[actions[i].rule] \in 0 .. (Len(matrix) - 1)
                    /\ \E k \in DOMAIN spans.ques_spans :
                          /\ spans.ques_spans[k] = RightSide(actions[i].rule)
                          /\ matrix[linked_rule2idx[actions[i].rule] + 1]
                                = spans.ques_spans_linking_score[k]
                    /\ IsSpanScore(RightSide(actions[i].rule), fields[<<"question">>],
                                   call.args[1].q_nemens, call.args[1].qnemens_to_ent,
                                   matrix[linked_rule2idx[actions[i].rule] + 1])

\* an instance whose third span is a question entity mention
C4_Witness ==
    /\ call.ret.result = "Instance"
    /\ \E rule \in DOMAIN call.ret.fields[<<"linked_rule2idx">>] :
          /\ StartsWith(RightSide(rule), QENT_PREFIX)
          /\ call.ret.fields[<<"linked_rule2idx">>][rule] = 2
    /\ \E r \in DOMAIN call.ret.fields[<<"action2ques_linkingscore">>] :
          call.ret.fields[<<"action2ques_linkingscore">>][r] = <<1, 0, 1>>

\* the world returned an action with a linked prefix whose right side is no
\* key of the span-to-index map
StrayLinkedAction ==
    /\ call.all_possible_actions # None
    /\ \E i \in DOMAIN call.all_possible_actions[1] :
          /\ HasLinkedPrefix(RightSide(call.all_possible_actions[1][i]))
          /\ RightSide(call.all_possible_actions[1][i])
                \notin DOMAIN call.spans[1].ques_spans2idx

\* C5: when the world's inventory holds a QSTR:/QENT: action whose right
\* side is not in the span-to-index map, text_to_instance raises and returns
\* neither an instance nor None.
C5_StrayLinkedActionIsFatal ==
    StrayLinkedAction =>
        /\ call.ret.result = "raised"
        /\ call.ret.raised = "KeyError"
        /\ call.ret.fields = EmptyDict
        /\ pc = "raised"

\* a stray action on the second record, after an instance was yielded
C5_Witness ==
    /\ StrayLinkedAction
    /\ pc = "raised"
    /\ Len(emitted) = 1

AnsGroundingKey(type) == <<"ans_grounding_">> \o type

\* the number of entity clusters the record has for an answer type
ClusterCount(args, type) ==
    IF type = ENTITY_TYPE THEN Len(args.context_eqent2entmens)
    ELSE IF type = NUM_TYPE THEN Len(args.context_eqent2nummens)
    ELSE Len(args.context_eqent2datemens)

\* the empty grounding of an answer type
IsEmptyGrounding(type, grounding, args, passages) ==
    IF type = BOOL_TYPE THEN grounding = <<0>>
    ELSE IF type = STRING_TYPE
    THEN /\ Len(grounding) = Len(passages)
         /\ \A c \in DOMAIN passages :
               grounding[c] = <<[span_start |-> -1, span_end |-> -1,
                                 sequence_field |-> passages[c]]>>
    ELSE /\ Len(grounding) = ClusterCount(args, type)
         /\ \A i \in DOMAIN grounding : grounding[i] = 0

\* C9: an instance made with gold supervision has a grounding entry for
\* exactly the five answer types; the gold type's entry is the gold grounding
\* (the boolean wrapped in a one-element list), every other type holds its
\* empty default: BOOLEAN [0.0], STRING one placeholder span per passage,
\* ENTITY / NUMBER / DATE a zero vector.
C9_GoldGroundingAmongEmptyDefaults ==
    (call.ret.result = "Instance" /\ call.args[1].ans_grounding # None) =>
        LET fields == call.ret.fields
            args == call.args[1]
            gold_type == args.ans_type[1]
        IN  /\ {k \in DOMAIN fields : StartsWith(k, <<"ans_grounding_">>)}
                  = {AnsGroundingKey(t) : t \in AnswerTypes}
            /\ gold_type \in AnswerTypes
            /\ fields[<<"gold_ans_type">>] = gold_type
            /\ gold_type = BOOL_TYPE =>
                  fields[AnsGroundingKey(gold_type)] = <<args.ans_grounding[1].v>>
            /\ gold_type \in {ENTITY_TYPE, NUM_TYPE, DATE_TYPE} =>
                  fields[AnsGroundingKey(gold_type)] = args.ans_grounding[1].v
            /\ \A t \in AnswerTypes \ {gold_type} :
                  IsEmptyGrounding(t, fields[AnsGroundingKey(t)], args, fields[<<"contexts">>])

\* a boolean gold answer "true" in a record with two number entities
C9_Witness ==
    /\ call.ret.result = "Instance"
    /\ call.args[1].ans_grounding # None
    /\ call.ret.fields[AnsGroundingKey(BOOL_TYPE)] = <<1>>
    /\ call.ret.fields[AnsGroundingKey(NUM_TYPE)] = <<0, 0>>
    /\ Len(call.ret.fields[AnsGroundingKey(STRING_TYPE)]) = 2

\* C10: for a gold answer type STRING, ENTITY, NUMBER or DATE (so also for
\* STRING with the "no answer" grounding) text_to_instance returns None and
\* raises nothing; only BOOLEAN gold answers yield an instance.
C10_OnlyBooleanGoldYieldsInstance ==
    TextToInstanceCalled =>
        /\ (call.args[1].ans_type # None
              /\ call.args[1].ans_type[1] \in {STRING_TYPE, ENTITY_TYPE, NUM_TYPE, DATE_TYPE}) =>
              /\ call.ret.result = "None"
              /\ call.ret.raised = ""
              /\ call.ret.fields = EmptyDict
        /\ call.ret.result = "Instance" => call.args[1].ans_type = <<BOOL_TYPE>>

\* a STRING gold answer with the "no answer" grounding was passed over
C10_Witness ==
    /\ TextToInstanceCalled
    /\ call.args[1].ans_type = <<STRING_TYPE>>
    /\ call.args[1].ans_grounding = <<NO_ANS_GROUNDING>>
    /\ call.ret.result = "None"
    /\ pc = "read"

\* the fields every instance carries whatever the supervision (lines 398-429)
UnsupervisedFields ==
    {<<"question">>, <<"contexts">>, <<"ent_mens">>, <<"num_nents">>, <<"num_mens">>,
     <<"num_numents">>, <<"date_mens">>, <<"num_dateents">>, <<"num_normval">>,
     <<"date_normval">>, <<"worlds">>, <<"actions">>, <<"linked_rule2idx">>,
     <<"action2ques_linkingscore">>, <<"ques_str_action_spans">>}

\* the fields gold supervision adds (lines 431-466)
SupervisionFields == {AnsGroundingKey(t) : t \in AnswerTypes} \cup {<<"gold_ans_type">>}

\* C11: gold supervision is optional: a record without gold answer type and
\* grounding is assembled into an instance (not None) that holds the question,
\* passages, mention structures, actions and linking scores but no grounding
\* entry and no gold type tag; the grounding entries and the tag are in an
\* instance exactly when the record has a gold grounding.
C11_UnsupervisedRecordYieldsInstance ==
    (TextToInstanceCalled /\ call.ret.result # "raised") =>
        /\ call.args[1].ans_type = None =>
              /\ call.ret.result = "Instance"
              /\ DOMAIN call.ret.fields = UnsupervisedFields
        /\ call.ret.result = "Instance" =>
              /\ UnsupervisedFields \subseteq DOMAIN call.ret.fields
              /\ call.args[1].ans_grounding # None =>
                    DOMAIN call.ret.fields = UnsupervisedFields \cup SupervisionFields
              /\ call.args[1].ans_grounding = None =>
                    DOMAIN call.ret.fields = UnsupervisedFields

-----------------------------------------------------------------------------
(* Claims about _read *)

Yielded(entry) == entry.result = "Instance"

NoFatalLine == \A k \in DOMAIN lines_read : lines_read[k].result # "raised"

\* the instance was made from the record of the line
InstanceOfLine(fields, line) ==
    LET data == line.data
    IN  /\ UnsupervisedFields \subseteq DOMAIN fields
        /\ fields[<<"question">>] = Tokenize(data["q_field"])
        /\ Len(fields[<<"contexts">>]) = Len(data["context_field"])
        /\ fields[<<"num_nents">>] = <<Len(data["context_eqent2entmens"])>>
        /\ ("ans_grounding_field" \in DOMAIN data /\ data["ans_grounding_field"] # None) =>
              /\ fields[<<"gold_ans_type">>] = data["ans_type_field"]
              /\ fields[AnsGroundingKey(BOOL_TYPE)] = <<data["ans_grounding_field"][1].v>>

\* C12: while no line of the file has been fatal, _read has emitted exactly
\* one instance for each non-blank line read whose example text_to_instance
\* did not pass over, in the order of the lines; a blank line or a passed-over
\* example emits nothing and leaves the loop running until the file ends.
C12_OneInstancePerYieldedLineInOrder ==
    NoFatalLine =>
        LET yielded == SelectSeq(lines_read, Yielded)
        IN  /\ Len(emitted) = Len(yielded)
            /\ \A k \in DOMAIN yielded : InstanceOfLine(emitted[k], yielded[k].line)
            /\ \A k \in DOMAIN lines_read :
                  /\ lines_read[k].line.blank <=> lines_read[k].result = "blank"
                  /\ ~lines_read[k].line.blank => lines_read[k].result \in {"None", "Instance"}
            /\ pc \in {"read", "eof"}
            /\ pc = "eof" => data_file = <<>>

\* a passed-over example, then one that is emitted, then the end of the file
C12_Witness ==
    /\ pc = "eof"
    /\ Len(lines_read) = 2
    /\ lines_read[1].result = "None"
    /\ lines_read[2].result = "Instance"
    /\ Len(emitted) = 1
    /\ InstanceOfLine(emitted[1], lines_read[2].line)

\* some cluster has two existing mentions whose texts the dictionary maps to
\* different values
ConflictIn(mens, eqent2mens, normalization_dict) ==
    \E e \in DOMAIN eqent2mens :
        \E i, j \in DOMAIN eqent2mens[e] :
            LET ri == eqent2mens[e][i]
                rj == eqent2mens[e][j]
            IN  /\ RefExists(mens, ri)
                /\ RefExists(mens, rj)
                /\ mens[ri[1] + 1][ri[2] + 1][1] \in DOMAIN normalization_dict
                /\ mens[rj[1] + 1][rj[2] + 1][1] \in DOMAIN normalization_dict
                /\ normalization_dict[mens[ri[1] + 1][ri[2] + 1][1]]
                      # normalization_dict[mens[rj[1] + 1][rj[2] + 1][1]]

MissingField(line) == ~line.blank /\ ReadArgs(line.data).raised # ""

\* the record passes the answer-type gate and its number or date mentions
\* have conflicting normalized values
NormalizationMismatch(line) ==
    /\ ~line.blank
    /\ ~MissingField(line)
    /\ "ans_type_field" \in DOMAIN line.data
    /\ line.data["ans_type_field"] = BOOL_TYPE
    /\ \/ ConflictIn(line.data["context_num_ner_field"], line.data["context_eqent2nummens"],
                     line.data["nums_normalized_field"])
       \/ ConflictIn(line.data["context_date_ner_field"], line.data["context_eqent2datemens"],
                     line.data["dates_normalized_field"])

EmittedBefore(k) == SelectSeq(SubSeq(lines_read, 1, k - 1), Yielded)

\* C13: a fatal condition on a line (a record that lacks a required field,
\* conflicting normalized values, a linked action outside the span map) ends
\* _read: the line is the last one taken, no instance is emitted for it or
\* for any later line, what was emitted before stays as it was, and every
\* instance ever emitted is complete.
C13_FatalExampleEndsTheStream ==
    /\ [](/\ \A k \in DOMAIN lines_read :
                /\ (MissingField(lines_read[k].line) \/ NormalizationMismatch(lines_read[k].line))
                      => lines_read[k].result = "raised"
                /\ lines_read[k].result = "raised" =>
                      /\ k = Len(lines_read)
                      /\ pc = "raised"
                      /\ Len(emitted) = Len(EmittedBefore(k))
                      /\ \A i \in DOMAIN emitted :
                            InstanceOfLine(emitted[i], EmittedBefore(k)[i].line)
          /\ StrayLinkedAction =>
                (lines_read # <<>> /\ lines_read[Len(lines_read)].result = "raised")
          /\ pc = "raised" =>
                (lines_read # <<>> /\ lines_read[Len(lines_read)].result = "raised")
          /\ \A i \in DOMAIN emitted : UnsupervisedFields \subseteq DOMAIN emitted[i])
    /\ [][/\ pc = "raised" => (emitted' = emitted /\ data_file' = data_file /\ pc' = pc)
          /\ pc' = "raised" => emitted' = emitted
          /\ Len(emitted') >= Len(emitted)
          /\ SubSeq(emitted', 1, Len(emitted)) = emitted]_vars

\* conflicting normalized values on the second line, after an instance was
\* emitted for the first, with nothing emitted for the second
C13_Witness ==
    /\ pc = "raised"
    /\ Len(lines_read) = 2
    /\ lines_read[1].result = "Instance"
    /\ NormalizationMismatch(lines_read[2].line)
    /\ call.ret.raised = "AssertionError"
    /\ Len(emitted) = 1

-----------------------------------------------------------------------------
(* Claims about the spans of question entity mentions and the span tables *)

\* the key the claim gives the i-th question mention
MentionKey(i) ==
    QENT_PREFIX \o Join(SubSeq(ques_tokens, q_ent_ners[i][2] + 1, q_ent_ners[i][3]), SPAN_DELIM)

\* the i-th mention is grounded and no grounded mention before it has its key
FirstGroundedWithKey(i) ==
    /\ q_entmens2entidx[i] # -1
    /\ \A j \in 1 .. (i - 1) : q_entmens2entidx[j] # -1 => MentionKey(j) # MentionKey(i)

MentionsAddingSpan == SelectSeq([i \in DOMAIN q_ent_ners |-> i], FirstGroundedWithKey)

\* C14: get_ques_nemens_ent_spans appends, after the token spans and in the
\* order of the mentions, exactly one span for each grounded mention whose
\* key QENT:<tokens[start:end] joined by ***> was not seen before: its
\* linking score is 1 at start .. end-1 and 0 elsewhere, its boundary is
\* (start, end-1); a grounded mention whose key is already there adds
\* nothing, so a key shared by two mentions carries the range of the first.
C14_OneSpanPerNewGroundedMentionKey ==
    pc = "spans_done" =>
        LET n0 == Len(tok_spans.ques_spans)
            adding == MentionsAddingSpan
        IN  /\ Len(ent_spans.ques_spans) = n0 + Len(adding)
            /\ Len(ent_spans.ques_spans_linking_score) = n0 + Len(adding)
            /\ Len(ent_spans.ques_spans_spanidxs) = n0 + Len(adding)
            /\ \A k \in DOMAIN adding :
                  LET ne_men == q_ent_ners[adding[k]]
                  IN  /\ ent_spans.ques_spans[n0 + k] = MentionKey(adding[k])
                      /\ ent_spans.ques_spans2idx[MentionKey(adding[k])] = n0 + k - 1
                      /\ ent_spans.ques_spans_linking_score[n0 + k]
                            = RangeVector(Len(ques_tokens), ne_men[2], ne_men[3])
                      /\ ent_spans.ques_spans_spanidxs[n0 + k].span_start = ne_men[2]
                      /\ ent_spans.ques_spans_spanidxs[n0 + k].span_end = ne_men[3] - 1

\* two grounded mentions of the same token at different positions: one span,
\* with the range of the first mention
C14_Witness ==
    /\ pc = "spans_done"
    /\ Len(q_ent_ners) = 2
    /\ q_entmens2entidx = <<0, 0>>
    /\ MentionKey(1) = MentionKey(2)
    /\ q_ent_ners[1][2] = 2
    /\ q_ent_ners[2][2] = 0
    /\ Len(ent_spans.ques_spans) = Len(tok_spans.ques_spans) + 1
    /\ ent_spans.ques_spans_linking_score[Len(ent_spans.ques_spans)] = <<0, 0, 1>>

\* C15: after get_ques_spans and get_ques_nemens_ent_spans the span keys are
\* pairwise different, ques_spans2idx maps them one-to-one onto 0 .. n-1 with
\* ques_spans[ques_spans2idx[s]] = s, the linking scores and the boundaries
\* are lists of length n in step with the spans, every linking score has one
\* entry per question token, and the entries get_ques_spans made are as it
\* left them.
C15_SpanTablesAligned ==
    pc = "spans_done" =>
        LET n == Len(ent_spans.ques_spans)
            n0 == Len(tok_spans.ques_spans)
        IN  /\ \A i, j \in 1 .. n :
                  ent_spans.ques_spans[i] = ent_spans.ques_spans[j] => i = j
            /\ DOMAIN ent_spans.ques_spans2idx = {ent_spans.ques_spans[i] : i \in 1 .. n}
            /\ {ent_spans.ques_spans2idx[s] : s \in DOMAIN ent_spans.ques_spans2idx}
                  = 0 .. (n - 1)
            /\ \A s \in DOMAIN ent_spans.ques_spans2idx :
                  ent_spans.ques_spans[ent_spans.ques_spans2idx[s] + 1] = s
            /\ Len(ent_spans.ques_spans_linking_score) = n
            /\ Len(ent_spans.ques_spans_spanidxs) = n
            /\ \A i \in 1 .. n :
                  Len(ent_spans.ques_spans_linking_score[i]) = Len(ques_tokens)
            /\ n0 <= n
            /\ SubSeq(ent_spans.ques_spans, 1, n0) = tok_spans.ques_spans
            /\ SubSeq(ent_spans.ques_spans_linking_score, 1, n0)
                  = tok_spans.ques_spans_linking_score
            /\ SubSeq(ent_spans.ques_spans_spanidxs, 1, n0) = tok_spans.ques_spans_spanidxs
            /\ \A s \in DOMAIN tok_spans.ques_spans2idx :
                  /\ s \in DOMAIN ent_spans.ques_spans2idx
                  /\ ent_spans.ques_spans2idx[s] = tok_spans.ques_spans2idx[s]

\* three token spans and two entity spans, one of them over two tokens
C15_Witness ==
    /\ pc = "spans_done"
    /\ Len(tok_spans.ques_spans) = 3
    /\ Len(ent_spans.ques_spans) = 5
    /\ \E i \in DOMAIN ent_spans.ques_spans_linking_score :
          ent_spans.ques_spans_linking_score[i] = <<0, 1, 1>>

\* C16: the boundary of every QSTR span is start = end = p, where p is the
\* position in the question of the first token equal to the span's value; p
\* lies inside the question and the span's linking score is 1 at p.
C16_TokenSpanBoundaryAtFirstOccurrence ==
    GetQuesSpansReturned =>
        \A i \in DOMAIN tok_spans.ques_spans :
            LET v == Tail(tok_spans.ques_spans[i])
                p == tok_spans.ques_spans_spanidxs[i].span_start
            IN  /\ tok_spans.ques_spans_spanidxs[i].span_end = p
                /\ p \in Range0(Len(ques_tokens))
                /\ ques_tokens[p + 1] = v
                /\ p = FirstOccurrence(ques_tokens, v)
                /\ tok_spans.ques_spans_linking_score[i][p + 1] = 1

-----------------------------------------------------------------------------
(* Claims about the instance's entity counts and the answer-type gate *)

\* per mention type: the count field, the mention structure, the
\* normalized-value list (<<>> when the type has none) and the answer type
MentionTypes ==
    {[count |-> <<"num_nents">>, mens |-> <<"ent_mens">>, normval |-> <<>>, type |-> ENTITY_TYPE],
     [count |-> <<"num_numents">>, mens |-> <<"num_mens">>, normval |-> <<"num_normval">>,
      type |-> NUM_TYPE],
     [count |-> <<"num_dateents">>, mens |-> <<"date_mens">>, normval |-> <<"date_normval">>,
      type |-> DATE_TYPE]}

\* the four sizes of one mention type agree in the instance
CountsAgree(fields, m) ==
    /\ Len(fields[m.count]) = 1
    /\ fields[m.count][1] = Len(fields[m.mens])
    /\ m.normval # <<>> => Len(fields[m.normval]) = fields[m.count][1]
    /\ AnsGroundingKey(m.type) \in DOMAIN fields =>
          Len(fields[AnsGroundingKey(m.type)]) = fields[m.count][1]

\* C17: in every instance and for each mention type, the reported entity
\* count (num_nents / num_numents / num_dateents), the number of entities in
\* the type's mention structure, the length of its normalized-value list and
\* the length of its empty-grounding zero vector are equal, also when the
\* record has no cluster of the type and the structure holds the one
\* synthetic entity.
C17_EntityCountsAgree ==
    call.ret.result = "Instance" =>
        \A m \in MentionTypes : CountsAgree(call.ret.fields, m)

\* some cluster refers to a mention that does not exist
DanglingIn(mens, eqent2mens) ==
    \E e \in DOMAIN eqent2mens : \E i \in DOMAIN eqent2mens[e] : ~RefExists(mens, eqent2mens[e][i])

\* the line holds a whole record with a gold answer type the reader does not
\* support
UnsupportedGold(line) ==
    /\ ~line.blank
    /\ ~MissingField(line)
    /\ "ans_type_field" \in DOMAIN line.data
    /\ line.data["ans_type_field"] \in AnswerTypes \ {BOOL_TYPE}

\* the record would make processMens fail
OtherwiseFatal(line) ==
    \/ ConflictIn(line.data["context_num_ner_field"], line.data["context_eqent2nummens"],
                  line.data["nums_normalized_field"])
    \/ DanglingIn(line.data["context_ent_ner_field"], line.data["context_eqent2entmens"])

\* C18: the answer-type gate comes before everything else in
\* text_to_instance: a record with an unsupported gold type is passed over
\* (None, nothing raised, nothing tokenized or extracted) also when it holds
\* conflicting normalized values or a mention index that does not exist, and
\* _read goes on with the next line.
C18_UnsupportedTypeSkippedBeforeAnyFailure ==
    /\ \A k \in DOMAIN lines_read :
          UnsupportedGold(lines_read[k].line) =>
              /\ lines_read[k].result = "None"
              /\ k = Len(lines_read) =>
                    /\ pc \in {"read", "eof"}
                    /\ call.args = Some(ReadArgs(lines_read[k].line.data))
                    /\ call.ret = ReturnNone
                    /\ call.tokenized_ques = None
                    /\ call.spans = None
                    /\ call.all_possible_actions = None
    /\ pc = "eof" => data_file = <<>>

\* an unsupported record with conflicting normalized values was passed over
\* and the record after it was emitted
C18_Witness ==
    /\ Len(lines_read) = 2
    /\ UnsupportedGold(lines_read[1].line)
    /\ ConflictIn(lines_read[1].line.data["context_num_ner_field"], lines_read[1].line.data["context_eqent2nummens"], lines_read[1].line.data["nums_normalized_field"])
    /\ lines_read[1].result = "None"
    /\ lines_read[2].result = "Instance"
    /\ Len(emitted) = 1

====
